---- MODULE Spec2Model ----
(***************************************************************************)
(* Model of the BuildXL sandbox event core:                                *)
(*   - IOEvent (Interop/Sandbox/Data/IOEvent.hpp): the three constructors  *)
(*     from raw identifiers, the accessors and max_size();                 *)
(*   - the interposing wrappers' event-construction macros (Detours.hpp);  *)
(*   - the wire codec, the path cache and the report call, whose           *)
(*     implementation files are not part of the sources read here and are  *)
(*     modelled from the specification.                                    *)
(***************************************************************************)
EXTENDS Integers, Sequences, FiniteSets, TLC

VARIABLES
    \* ---- the constructor / codec harness
    built,          \* the record the last constructor call produced (<<>>: none)
    how,            \* the call that produced it: shape, exec argument, stat outcome
    wire,           \* the bytes operator<< wrote for `built`
    decoded,        \* <<r>> once operator>> has read `wire`: r is the record, or <<>> (malformed)
    \* ---- the interposing wrappers (one entry per thread of the process)
    trackedPaths_,  \* the process-wide write dedup cache
    sandbox,        \* what send_to_sandbox was handed, in order
    pc,             \* each thread's position in its wrapper
    call,           \* each thread's intercepted call: shape, arguments, raw result
    errno,          \* each thread's errno (thread-local)
    old_errno,      \* the macro's local `old_errno`
    reported,       \* the write macro's local `reported`
    event,          \* the macro's local `event` (<<>> while not constructed)
    returned,       \* the value the macro returned (<<>>: it returned nothing)
    sends,          \* number of send_to_sandbox calls of the current wrapper call
    inserted,       \* whether the current wrapper call inserted into the cache
    okWrites,       \* paths for which a successful write wrapper has returned
    failedWrites,   \* paths for which a failed write wrapper has returned
    errno0,         \* each thread's errno when its wrapper's macro was entered
    ncalls          \* number of intercepted calls so far

pureVars == <<built, how, wire, decoded>>
detourVars == <<trackedPaths_, sandbox, pc, call, errno, old_errno, reported,
                event, returned, sends, inserted, okWrites, failedWrites, errno0,
                ncalls>>
vars == <<built, how, wire, decoded, trackedPaths_, sandbox, pc, call, errno,
          old_errno, reported, event, returned, sends, inserted, okWrites,
          failedWrites, errno0, ncalls>>

----------------------------------------------------------------------------
(* Program constants *)

PID_MAX == 99999
USHRT_MAX == 65535
PATH_MAX == 1024          \* <sys/syslimits.h> of the platform IOEvent.hpp is written for
INT_MAX == 2147483647     \* the largest pid_t

ES_EVENT_TYPE_NOTIFY_EXEC == 9
ES_EVENT_TYPE_NOTIFY_OPEN == 10
ES_EVENT_TYPE_NOTIFY_FORK == 11
ES_EVENT_TYPE_NOTIFY_EXIT == 15
ES_EVENT_TYPE_NOTIFY_WRITE == 33
ES_EVENT_TYPE_NOTIFY_STAT == 54
ES_EVENT_TYPE_LAST == 88

ENOENT == 2
EACCES == 13
EPIPE == 32

----------------------------------------------------------------------------
(* Strings are sequences of one-character strings. *)

Str_tmp_a == <<"/", "t", "m", "p", "/", "a">>
Str_tmp_b == <<"/", "t", "m", "p", "/", "b">>
Str_bin_sh == <<"/", "b", "i", "n", "/", "s", "h">>
Str_bin_cc == <<"/", "b", "i", "n", "/", "c", "c">>
\* a path holding characters that are legal in a file name but special elsewhere
Str_odd == <<"/", "a", "|", "1", "-", " ", "b">>
\* a path of the maximum length
LongPath(c) == [i \in 1..PATH_MAX |-> IF i = 1 THEN "/" ELSE c]

Optional(x) == <<x>>
None == <<>>

----------------------------------------------------------------------------
(* IOEvent: constructors and accessors *)

\* stat(2) as the constructor sees it: success with a mode, or failure
StatOk(m) == [ok |-> TRUE, st_mode |-> m]
StatFail == [ok |-> FALSE, st_mode |-> 0]

Record(pid, cpid, ppid, type, src, dst, exec, mode, modified) ==
    [pid_ |-> pid, cpid_ |-> cpid, ppid_ |-> ppid, eventType_ |-> type,
     mode_ |-> mode, modified_ |-> modified, executable_ |-> exec,
     src_path_ |-> src, dst_path_ |-> dst, oppid_ |-> ppid]

\* faulty variant: the failed stat's buffer is read anyway
IOEventQuery_ReadsFailedStat(pid, cpid, ppid, type, src, dst, exec, get_mode, modified, st) ==
    IF exec = <<>> THEN None
    ELSE Optional(Record(pid, cpid, ppid, type, src, dst, exec,
                         IF get_mode THEN (IF st.ok THEN st.st_mode ELSE 33188) ELSE 0,
                         modified))

\* IOEvent(pid, cpid, ppid, type, const char *src, const char *dst, exec,
\*         bool get_mode = true, bool modified = false); `st` is what stat(src)
\* answers if it is asked.  assert(!exec.empty()) aborts: no record (the
\* assertion is taken as compiled in).
IOEventQuery(pid, cpid, ppid, type, src, dst, exec, get_mode, modified, st) ==
    IF exec = <<>> THEN None
    ELSE Optional(Record(pid, cpid, ppid, type, src, dst, exec,
                         IF get_mode THEN (IF st.ok THEN st.st_mode ELSE 0) ELSE 0,
                         modified))

\* errno after the constructor: a failing stat sets it
CtorErrno(e, get_mode, st) == IF get_mode /\ ~st.ok THEN ENOENT ELSE e

\* IOEvent(pid, cpid, ppid, type, std::string src, std::string dst, exec,
\*         mode_t mode, bool modified = false): a member-initialiser list only
IOEventExplicit(pid, cpid, ppid, type, src, dst, exec, mode, modified) ==
    Optional(Record(pid, cpid, ppid, type, src, dst, exec, mode, modified))

getpid == 100
getppid == 1

\* IOEvent(type, src, exec, mode, modified = false, dest = ""): delegates
IOEventCurrent(type, src, exec, mode, modified, dest) ==
    IOEventExplicit(getpid, 0, getppid, type, src, dest, exec, mode, modified)

GetMode(e) == e.mode_
GetExecutablePath(e) == e.executable_

EventPathExists(e) == e.mode_ # 0

----------------------------------------------------------------------------
(* max_size() and the wire codec *)

DigitChars == <<"0", "1", "2", "3", "4", "5", "6", "7", "8", "9">>

RECURSIVE Digits(_)
Digits(n) == IF n < 10 THEN <<DigitChars[n + 1]>>
             ELSE Digits(n \div 10) \o <<DigitChars[(n % 10) + 1]>>

\* std::to_string / operator<< of an integer: decimal, with a sign
to_string(n) == IF n < 0 THEN <<"-">> \o Digits(-n) ELSE Digits(n)

BoolInt(b) == IF b THEN 1 ELSE 0

\* faulty variant: one pid field forgotten in the budget
max_size_TwoPids ==
    (2 * Len(to_string(PID_MAX))) + (2 * Len(to_string(USHRT_MAX)))
    + Len(to_string(BoolInt(TRUE))) + (3 * PATH_MAX) + 9

max_size ==
    (3 * Len(to_string(PID_MAX))) +        \* Pids
    (2 * Len(to_string(USHRT_MAX))) +      \* Type + Mode
    Len(to_string(BoolInt(TRUE))) +        \* Modified
    (3 * PATH_MAX) +                       \* Executable, src and dst paths
    9                                      \* Delimiters

\* The delimiter byte: one that no path can hold.
Delim == "NUL"

\* faulty variant: the sign of a negative number is dropped
Encode_NoSign(e) ==
    Digits(IF e.pid_ < 0 THEN -e.pid_ ELSE e.pid_) \o <<Delim>> \o
    to_string(e.cpid_) \o <<Delim>> \o
    to_string(e.ppid_) \o <<Delim>> \o to_string(e.eventType_) \o <<Delim>> \o
    to_string(e.mode_) \o <<Delim>> \o to_string(BoolInt(e.modified_)) \o <<Delim>> \o
    e.executable_ \o <<Delim>> \o e.src_path_ \o <<Delim>> \o e.dst_path_ \o <<Delim>>

\* operator<<: the nine serialized fields, each followed by the delimiter
Encode(e) ==
    to_string(e.pid_) \o <<Delim>> \o to_string(e.cpid_) \o <<Delim>> \o
    to_string(e.ppid_) \o <<Delim>> \o to_string(e.eventType_) \o <<Delim>> \o
    to_string(e.mode_) \o <<Delim>> \o to_string(BoolInt(e.modified_)) \o <<Delim>> \o
    e.executable_ \o <<Delim>> \o e.src_path_ \o <<Delim>> \o e.dst_path_ \o <<Delim>>

DigitValue(c) == CHOOSE d \in 0..9 : DigitChars[d + 1] = c

IsDigit(c) == \E d \in 0..9 : DigitChars[d + 1] = c

RECURSIVE Unsigned(_)
Unsigned(s) == IF Len(s) = 1 THEN DigitValue(s[1])
               ELSE (10 * Unsigned(SubSeq(s, 1, Len(s) - 1))) + DigitValue(s[Len(s)])

IsNumber(s) ==
    LET body == IF s # <<>> /\ s[1] = "-" THEN Tail(s) ELSE s
    IN  body # <<>> /\ \A i \in 1..Len(body) : IsDigit(body[i])

ParseInt(s) == IF s[1] = "-" THEN -Unsigned(Tail(s)) ELSE Unsigned(s)

\* operator>>: split at the delimiters, parse the six numbers; `oppid` is the
\* value the default-constructed record's oppid_ happens to hold.
\* <<>> stands for the malformed-record failure.
Decode(w, oppid) ==
    LET at == {i \in 1..Len(w) : w[i] = Delim}
        Kth(k) == IF k = 0 THEN 0
                  ELSE CHOOSE i \in at : Cardinality({j \in at : j < i}) = k - 1
        Field(k) == SubSeq(w, Kth(k - 1) + 1, Kth(k) - 1)
    IN  IF Cardinality(at) # 9 \/ w[Len(w)] # Delim THEN None
        ELSE IF \E k \in 1..6 : ~IsNumber(Field(k)) THEN None
        ELSE IF ParseInt(Field(6)) \notin {0, 1} THEN None
        ELSE Optional([pid_ |-> ParseInt(Field(1)), cpid_ |-> ParseInt(Field(2)),
                       ppid_ |-> ParseInt(Field(3)), eventType_ |-> ParseInt(Field(4)),
                       mode_ |-> ParseInt(Field(5)), modified_ |-> ParseInt(Field(6)) = 1,
                       executable_ |-> Field(7), src_path_ |-> Field(8),
                       dst_path_ |-> Field(9), oppid_ |-> oppid])

----------------------------------------------------------------------------
(* Inputs of the constructor / codec harness *)

PidVals == {-1, 0, getpid, PID_MAX, INT_MAX}
ChildPidVals == {0, PID_MAX, INT_MAX}
ParentPidVals == {getppid, PID_MAX, INT_MAX}
TypeVals == {ES_EVENT_TYPE_NOTIFY_WRITE, ES_EVENT_TYPE_LAST - 1}
ModeVals == {0, USHRT_MAX}
StModes == {16877, 33188}
StatOutcomes == {StatFail} \cup {StatOk(m) : m \in StModes}
ExecVals == {<<>>, Str_bin_sh, LongPath("x")}
SrcVals == {<<>>, Str_odd, LongPath("s")}
DstVals == {<<>>, Str_tmp_b, LongPath("d")}
NoStat == [ok |-> FALSE, st_mode |-> 0]

PureInit ==
    /\ built = None
    /\ how = [shape |-> "none", exec |-> <<>>, get_mode |-> FALSE, st |-> NoStat]
    /\ wire = <<>>
    /\ decoded = None

ConstructQuery ==
    /\ how.shape = "none"
    /\ \E pid \in {getpid, PID_MAX}, cpid \in {0}, ppid \in {getppid},
          type \in TypeVals, src \in SrcVals, dst \in {<<>>, Str_tmp_b},
          exec \in ExecVals, get_mode \in BOOLEAN, modified \in BOOLEAN,
          st \in StatOutcomes :
          /\ built' = IOEventQuery(pid, cpid, ppid, type, src, dst, exec,
                                   get_mode, modified, st)
          /\ how' = [shape |-> "query", exec |-> exec, get_mode |-> get_mode, st |-> st]
    /\ wire' = <<>>
    /\ decoded' = None
    /\ UNCHANGED detourVars

ConstructExplicit ==
    /\ how.shape = "none"
    /\ \E pid \in PidVals, cpid \in ChildPidVals, ppid \in ParentPidVals,
          type \in TypeVals, src \in SrcVals, dst \in DstVals,
          exec \in ExecVals, mode \in ModeVals, modified \in BOOLEAN :
          /\ built' = IOEventExplicit(pid, cpid, ppid, type, src, dst, exec,
                                      mode, modified)
          /\ how' = [shape |-> "explicit", exec |-> exec, get_mode |-> FALSE, st |-> NoStat]
    /\ wire' = <<>>
    /\ decoded' = None
    /\ UNCHANGED detourVars

ConstructCurrent ==
    /\ how.shape = "none"
    /\ \E type \in TypeVals, src \in SrcVals, dest \in DstVals,
          exec \in ExecVals, mode \in ModeVals, modified \in BOOLEAN :
          /\ built' = IOEventCurrent(type, src, exec, mode, modified, dest)
          /\ how' = [shape |-> "current", exec |-> exec, get_mode |-> FALSE, st |-> NoStat]
    /\ wire' = <<>>
    /\ decoded' = None
    /\ UNCHANGED detourVars

Serialize ==
    /\ built # None
    /\ wire = <<>>
    /\ wire' = Encode(built[1])
    /\ UNCHANGED <<built, how, decoded>>
    /\ UNCHANGED detourVars

Deserialize ==
    /\ wire # <<>>
    /\ decoded = None
    /\ \E oppid \in {0, getppid} : decoded' = Optional(Decode(wire, oppid))
    /\ UNCHANGED <<built, how, wire>>
    /\ UNCHANGED detourVars

----------------------------------------------------------------------------
(* The interposing wrappers (Detours.hpp) *)

Threads == {"t1", "t2"}
MaxCalls == 2
MaxSeqCalls == 3

ChildPid == 200

\* get_executable_path(pid): the image of each process, never empty
get_executable_path(pid) == IF pid = ChildPid THEN Str_bin_cc ELSE Str_bin_sh

\* send_to_sandbox: the transport delivers or not, and may leave its own errno
SendOutcomes == {[delivered |-> TRUE, sets_errno |-> FALSE],
                 [delivered |-> TRUE, sets_errno |-> TRUE],
                 [delivered |-> FALSE, sets_errno |-> TRUE]}
SendErrno(e, o) == IF o.sets_errno THEN EPIPE ELSE e
Sent(ev, o) == [event |-> ev, delivered |-> o.delivered]

\* trackedPaths_->get(path) != nullptr, trackedPaths_->insert(path, entry)
CacheHas(cache, path) == path \in cache
CacheInsert(cache, path) == cache \cup {path}

NoCall == [shape |-> "none", type |-> 0, src |-> <<>>, dst |-> <<>>, flag |-> FALSE,
           result |-> 0, err |-> 0, success |-> 0, cmp |-> "", child_pid |-> 0,
           st_mode |-> 0]

Call(shape, type, src, flag, result, err, success, cmp, child_pid, st_mode) ==
    [shape |-> shape, type |-> type, src |-> src, dst |-> <<>>, flag |-> flag,
     result |-> result, err |-> err, success |-> success, cmp |-> cmp,
     child_pid |-> child_pid, st_mode |-> st_mode]

\* The intercepted calls: what each wrapper is entered with.  `flag` is the
\* macro's `mode` (DEFAULT) or `report` (NO_RESOLVE) argument, `err` the errno
\* the original call set (0: it left errno alone).
Calls ==
    {Call("default", ES_EVENT_TYPE_NOTIFY_OPEN, Str_tmp_a, TRUE, 3, 0, 0, "", 0, 0),
     Call("default", ES_EVENT_TYPE_NOTIFY_OPEN, Str_tmp_a, FALSE, -1, EACCES, 0, "", 0, 0),
     Call("noresolve", ES_EVENT_TYPE_NOTIFY_OPEN, Str_tmp_a, TRUE, -1, EACCES, 0, "", 0, 0),
     Call("noresolve", ES_EVENT_TYPE_NOTIFY_OPEN, Str_tmp_a, FALSE, 0, 0, 0, "", 0, 0),
     Call("exec", ES_EVENT_TYPE_NOTIFY_EXEC, Str_bin_cc, FALSE, 0, 0, 0, "", 0, 0),
     Call("exit", ES_EVENT_TYPE_NOTIFY_EXIT, <<>>, FALSE, 0, 0, 0, "", 0, 0),
     Call("stat", ES_EVENT_TYPE_NOTIFY_STAT, Str_tmp_a, FALSE, 0, 0, 0, "", 0, 33188),
     Call("stat", ES_EVENT_TYPE_NOTIFY_STAT, Str_tmp_a, FALSE, -1, ENOENT, 0, "", 0, 0)}
    \cup {Call("fork", ES_EVENT_TYPE_NOTIFY_FORK, <<>>, FALSE, r, IF r < 0 THEN EACCES ELSE 0,
               0, c, ChildPid, 0) :
        r \in {-1, 0, ChildPid}, c \in {">", "=="}}
    \cup {Call("write", ES_EVENT_TYPE_NOTIFY_WRITE, p, FALSE, 5, 0, 0, "", 0, 0) :
        p \in {Str_tmp_a, Str_tmp_b}}
    \cup {Call("write", ES_EVENT_TYPE_NOTIFY_WRITE, p, FALSE, -1, EACCES, -1, "", 0, 0) :
        p \in {Str_tmp_a, Str_tmp_b}}

WrapperStats == {StatFail, StatOk(33188)}

DetourInit ==
    /\ trackedPaths_ = {}
    /\ sandbox = <<>>
    /\ pc = [t \in Threads |-> "idle"]
    /\ call = [t \in Threads |-> NoCall]
    /\ errno = [t \in Threads |-> 0]
    /\ old_errno = [t \in Threads |-> 0]
    /\ reported = [t \in Threads |-> FALSE]
    /\ event = [t \in Threads |-> None]
    /\ returned = [t \in Threads |-> None]
    /\ sends = [t \in Threads |-> 0]
    /\ inserted = [t \in Threads |-> FALSE]
    /\ okWrites = {}
    /\ failedWrites = {}
    /\ errno0 = [t \in Threads |-> 0]
    /\ ncalls = 0

Init == PureInit /\ DetourInit

\* A thread enters a wrapper, at most `n` calls in all: the original call has
\* been made (for exec and exit it is still to come) and has left its result
\* and, if it failed, its errno.
Begin(t, n) ==
    /\ pc[t] = "idle"
    /\ ncalls < n
    /\ \E c \in Calls :
          /\ call' = [call EXCEPT ![t] = c]
          /\ errno' = [errno EXCEPT ![t] = IF c.err # 0 THEN c.err ELSE @]
          /\ errno0' = [errno0 EXCEPT ![t] = IF c.err # 0 THEN c.err ELSE errno[t]]
    /\ pc' = [pc EXCEPT ![t] = "macro"]
    /\ ncalls' = ncalls + 1
    /\ UNCHANGED <<trackedPaths_, sandbox, old_errno, reported, event, returned,
                   sends, inserted, okWrites, failedWrites>>
    /\ UNCHANGED pureVars

\* `IOEvent event(...); send_to_sandbox(event, ...);` with the event `ev`
ReportEvent(t, ev, get_mode, st, o) ==
    /\ event' = [event EXCEPT ![t] = ev]
    /\ sandbox' = Append(sandbox, Sent(ev[1], o))
    /\ sends' = [sends EXCEPT ![t] = @ + 1]
    /\ errno' = [errno EXCEPT ![t] = SendErrno(CtorErrno(@, get_mode, st), o)]

\* DEFAULT_EVENT_CONSTRUCTOR up to the send
DefaultMacro(t) ==
    /\ pc[t] = "macro" /\ call[t].shape = "default"
    /\ old_errno' = [old_errno EXCEPT ![t] = errno[t]]
    /\ \E st \in WrapperStats, o \in SendOutcomes :
          ReportEvent(t, IOEventQuery(getpid, 0, getppid, call[t].type, call[t].src,
                                      call[t].dst, get_executable_path(getpid),
                                      call[t].flag, FALSE, st),
                      call[t].flag, st, o)
    /\ pc' = [pc EXCEPT ![t] = "restore"]
    /\ UNCHANGED <<trackedPaths_, call, reported, returned, inserted, okWrites, failedWrites,
                   errno0, ncalls>>
    /\ UNCHANGED pureVars

\* DEFAULT_EVENT_CONSTRUCTOR_NO_RESOLVE up to the send
NoResolveMacro(t) ==
    /\ pc[t] = "macro" /\ call[t].shape = "noresolve"
    /\ old_errno' = [old_errno EXCEPT ![t] = errno[t]]
    /\ IF call[t].flag
       THEN \E st \in WrapperStats, o \in SendOutcomes :
               ReportEvent(t, IOEventQuery(getpid, 0, getppid, call[t].type, call[t].src,
                                           call[t].dst, get_executable_path(getpid),
                                           TRUE, FALSE, st),
                           TRUE, st, o)
       ELSE UNCHANGED <<event, sandbox, sends, errno>>
    /\ pc' = [pc EXCEPT ![t] = "restore"]
    /\ UNCHANGED <<trackedPaths_, call, reported, returned, inserted, okWrites, failedWrites,
                   errno0, ncalls>>
    /\ UNCHANGED pureVars

\* EXEC_EVENT_CONSTRUCTOR and EXIT_EVENT_CONSTRUCTOR: the whole macro
ExecExitMacro(t) ==
    /\ pc[t] = "macro" /\ call[t].shape \in {"exec", "exit"}
    /\ \E o \in SendOutcomes :
          ReportEvent(t, IOEventQuery(getpid, 0, getppid, call[t].type, call[t].src,
                                      <<>>, get_executable_path(getpid),
                                      FALSE, FALSE, NoStat),
                      FALSE, NoStat, o)
    /\ pc' = [pc EXCEPT ![t] = "after"]
    /\ UNCHANGED <<trackedPaths_, call, old_errno, reported, returned, inserted,
                   okWrites, failedWrites,
                   errno0, ncalls>>
    /\ UNCHANGED pureVars

\* `result cmp 0`
ForkSucceeded(result, cmp) == IF cmp = ">" THEN result > 0 ELSE result = 0

\* faulty variant: the executable is resolved for the parent
ForkEvent_ParentImage(pid, child_pid, ppid) ==
    IOEventQuery(pid, child_pid, ppid, ES_EVENT_TYPE_NOTIFY_FORK, <<>>, <<>>,
                 get_executable_path(pid), FALSE, FALSE, NoStat)

\* fullpath = get_executable_path(*child_pid); IOEvent event(pid, *child_pid, ...)
ForkEvent(pid, child_pid, ppid) ==
    IOEventQuery(pid, child_pid, ppid, ES_EVENT_TYPE_NOTIFY_FORK, <<>>, <<>>,
                 get_executable_path(child_pid), FALSE, FALSE, NoStat)

\* FORK_EVENT_CONSTRUCTOR up to the send
ForkMacro(t) ==
    /\ pc[t] = "macro" /\ call[t].shape = "fork"
    /\ old_errno' = [old_errno EXCEPT ![t] = errno[t]]
    /\ IF ForkSucceeded(call[t].result, call[t].cmp)
       THEN \E o \in SendOutcomes :
               ReportEvent(t, ForkEvent(getpid, call[t].child_pid, getppid),
                           FALSE, NoStat, o)
       ELSE UNCHANGED <<event, sandbox, sends, errno>>
    /\ pc' = [pc EXCEPT ![t] = "restore"]
    /\ UNCHANGED <<trackedPaths_, call, reported, returned, inserted, okWrites, failedWrites,
                   errno0, ncalls>>
    /\ UNCHANGED pureVars

\* STAT_EVENT_CONSTRUCTOR up to the send
StatMacro(t) ==
    /\ pc[t] = "macro" /\ call[t].shape = "stat"
    /\ old_errno' = [old_errno EXCEPT ![t] = errno[t]]
    /\ \E o \in SendOutcomes :
          ReportEvent(t, IOEventExplicit(getpid, 0, getppid, call[t].type, call[t].src,
                                         <<>>, get_executable_path(getpid),
                                         call[t].st_mode, FALSE),
                      FALSE, NoStat, o)
    /\ pc' = [pc EXCEPT ![t] = "restore"]
    /\ UNCHANGED <<trackedPaths_, call, reported, returned, inserted, okWrites, failedWrites,
                   errno0, ncalls>>
    /\ UNCHANGED pureVars

\* faulty variant: a failed write is looked up and recorded like a successful one
WriteSucceeded_Always(success) == TRUE

\* `success == 0`
WriteSucceeded(success) == success = 0

\* WRITE_EVENT_CONSTRUCTOR: old_errno, the success test and the cache lookup
WriteGet(t) ==
    /\ pc[t] = "macro" /\ call[t].shape = "write"
    /\ old_errno' = [old_errno EXCEPT ![t] = errno[t]]
    /\ IF WriteSucceeded(call[t].success)
       THEN /\ reported' = [reported EXCEPT ![t] = CacheHas(trackedPaths_, call[t].src)]
            /\ pc' = [pc EXCEPT ![t] = IF reported'[t] THEN "restore" ELSE "insert"]
       ELSE /\ pc' = [pc EXCEPT ![t] = "restore"]
            /\ UNCHANGED reported
    /\ UNCHANGED <<trackedPaths_, sandbox, call, errno, event, returned, sends,
                   inserted, okWrites, failedWrites,
                   errno0, ncalls>>
    /\ UNCHANGED pureVars

\* faulty variant: the entry is built but never inserted
WriteInsert_Forgets(t) ==
    /\ pc[t] = "insert"
    /\ inserted' = [inserted EXCEPT ![t] = TRUE]
    /\ pc' = [pc EXCEPT ![t] = "send"]
    /\ UNCHANGED <<trackedPaths_, sandbox, call, errno, old_errno, reported, event,
                   returned, sends, okWrites, failedWrites,
                   errno0, ncalls>>
    /\ UNCHANGED pureVars

\* WRITE_EVENT_CONSTRUCTOR: trackedPaths_->insert(path, entry)
WriteInsert(t) ==
    /\ pc[t] = "insert"
    /\ trackedPaths_' = CacheInsert(trackedPaths_, call[t].src)
    /\ inserted' = [inserted EXCEPT ![t] = TRUE]
    /\ pc' = [pc EXCEPT ![t] = "send"]
    /\ UNCHANGED <<sandbox, call, errno, old_errno, reported, event, returned, sends,
                   okWrites, failedWrites,
                   errno0, ncalls>>
    /\ UNCHANGED pureVars

\* WRITE_EVENT_CONSTRUCTOR: the event and its send
WriteSend(t) ==
    /\ pc[t] = "send"
    /\ \E st \in WrapperStats, o \in SendOutcomes :
          ReportEvent(t, IOEventQuery(getpid, 0, getppid, ES_EVENT_TYPE_NOTIFY_WRITE,
                                      call[t].src, call[t].dst,
                                      get_executable_path(getpid), TRUE, FALSE, st),
                      TRUE, st, o)
    /\ pc' = [pc EXCEPT ![t] = "restore"]
    /\ UNCHANGED <<trackedPaths_, call, old_errno, reported, returned, inserted,
                   okWrites, failedWrites,
                   errno0, ncalls>>
    /\ UNCHANGED pureVars

\* faulty variant: the saved errno is not written back
Restore_KeepsErrno(t) ==
    /\ pc[t] = "restore"
    /\ returned' = [returned EXCEPT ![t] = Optional(call[t].result)]
    /\ okWrites' = IF call[t].shape = "write" /\ call[t].success = 0
                   THEN okWrites \cup {call[t].src} ELSE okWrites
    /\ failedWrites' = IF call[t].shape = "write" /\ call[t].success # 0
                       THEN failedWrites \cup {call[t].src} ELSE failedWrites
    /\ pc' = [pc EXCEPT ![t] = "after"]
    /\ UNCHANGED <<trackedPaths_, sandbox, call, errno, old_errno, reported, event,
                   sends, inserted, errno0, ncalls>>
    /\ UNCHANGED pureVars

\* `errno = old_errno; return result;`
Restore(t) ==
    /\ pc[t] = "restore"
    /\ errno' = [errno EXCEPT ![t] = old_errno[t]]
    /\ returned' = [returned EXCEPT ![t] = Optional(call[t].result)]
    /\ okWrites' = IF call[t].shape = "write" /\ call[t].success = 0
                   THEN okWrites \cup {call[t].src} ELSE okWrites
    /\ failedWrites' = IF call[t].shape = "write" /\ call[t].success # 0
                       THEN failedWrites \cup {call[t].src} ELSE failedWrites
    /\ pc' = [pc EXCEPT ![t] = "after"]
    /\ UNCHANGED <<trackedPaths_, sandbox, call, old_errno, reported, event,
                   sends, inserted, errno0, ncalls>>
    /\ UNCHANGED pureVars

\* The caller has the result; the macro's locals go out of scope.
Finish(t) ==
    /\ pc[t] = "after"
    /\ pc' = [pc EXCEPT ![t] = "idle"]
    /\ call' = [call EXCEPT ![t] = NoCall]
    /\ old_errno' = [old_errno EXCEPT ![t] = 0]
    /\ reported' = [reported EXCEPT ![t] = FALSE]
    /\ event' = [event EXCEPT ![t] = None]
    /\ returned' = [returned EXCEPT ![t] = None]
    /\ sends' = [sends EXCEPT ![t] = 0]
    /\ inserted' = [inserted EXCEPT ![t] = FALSE]
    /\ UNCHANGED <<trackedPaths_, sandbox, errno, okWrites, failedWrites,
                   errno0, ncalls>>
    /\ UNCHANGED pureVars

Step(t, n) ==
    \/ Begin(t, n)
    \/ DefaultMacro(t)
    \/ NoResolveMacro(t)
    \/ ExecExitMacro(t)
    \/ ForkMacro(t)
    \/ StatMacro(t)
    \/ WriteGet(t)
    \/ WriteInsert(t)
    \/ WriteSend(t)
    \/ Restore(t)
    \/ Finish(t)

\* Threads of one process run their wrappers concurrently.
Next == \E t \in Threads : Step(t, MaxCalls)

Spec == Init /\ [][Next]_vars

\* A single-threaded process: its calls come one after another.
MainThread == "t1"

SeqNext == Step(MainThread, MaxSeqCalls)

SeqSpec == Init /\ [][SeqNext]_vars

\* The constructors and the codec exercised on their own.
PureNext ==
    \/ ConstructQuery
    \/ ConstructExplicit
    \/ ConstructCurrent
    \/ Serialize
    \/ Deserialize

PureSpec == Init /\ [][PureNext]_vars

----------------------------------------------------------------------------
(* Properties *)

WritePaths == {Str_tmp_a, Str_tmp_b}

\* number of write events handed to send_to_sandbox for path p
NumWriteReports(p) ==
    Cardinality({i \in 1..Len(sandbox) :
                    /\ sandbox[i].event.eventType_ = ES_EVENT_TYPE_NOTIFY_WRITE
                    /\ sandbox[i].event.src_path_ = p})

\* a delivered copy of event ev is among the reports
Delivered(ev) == \E i \in 1..Len(sandbox) : sandbox[i].event = ev /\ sandbox[i].delivered

\* no wrapper is in progress
Quiescent == \A t \in Threads : pc[t] \in {"idle", "after"}

\* C1: writes performed one after another by one process report each path
\* at most once, and exactly once when a successful write to it has returned;
\* a path written successfully is in the cache.
C1_SequentialWritesReportOnce ==
    \A p \in WritePaths :
        /\ NumWriteReports(p) <= 1
        /\ Quiescent => NumWriteReports(p) = (IF p \in okWrites THEN 1 ELSE 0)
        /\ p \in okWrites => p \in trackedPaths_

\* C1 witness: a second successful write found its path in the cache, returned
\* without reporting, and the path has its single report.
C1_Witness ==
    \E t \in Threads :
        /\ pc[t] = "after" /\ call[t].shape = "write" /\ call[t].success = 0
        /\ reported[t] /\ sends[t] = 0
        /\ NumWriteReports(call[t].src) = 1

\* C2: with threads of one process writing the same path concurrently
\* (lookup and insertion being mutually exclusive), every interleaving reports
\* the path exactly once, never twice and never not at all, and leaves it in
\* the cache.
C2_ConcurrentWritersReportOnce ==
    \A p \in WritePaths :
        /\ NumWriteReports(p) <= 1
        /\ (Quiescent /\ p \in okWrites) =>
              (NumWriteReports(p) = 1 /\ p \in trackedPaths_)

C4_ReportedOrFailsLoudly ==
    \A t \in Threads :
        (pc[t] = "after" /\ call[t].shape = "write" /\ inserted[t]) =>
            \/ \E i \in 1..Len(sandbox) :
                  /\ sandbox[i].delivered
                  /\ sandbox[i].event.eventType_ = ES_EVENT_TYPE_NOTIFY_WRITE
                  /\ sandbox[i].event.src_path_ = call[t].src
            \/ returned[t] # Optional(call[t].result)
            \/ errno[t] # errno0[t]

\* C5: every constructor from raw identifiers refuses an empty executable
\* path and stores a non-empty one.
C5_ExecutablePathNeverEmpty ==
    how.shape # "none" =>
        IF how.exec = <<>> THEN built = None
        ELSE built # None /\ GetExecutablePath(built[1]) = how.exec

\* C6: the fork macro reports exactly when `result cmp 0` holds, and then one
\* NOTIFY_FORK event with the parent's pid, the child pid of the out-parameter
\* and the child's executable.
C6_ForkReportedIffSucceeded ==
    \A t \in Threads :
        (pc[t] \in {"restore", "after"} /\ call[t].shape = "fork") =>
            IF \/ (call[t].cmp = ">" /\ call[t].result > 0)
               \/ (call[t].cmp = "==" /\ call[t].result = 0)
            THEN /\ sends[t] = 1
                 /\ event[t] # None
                 /\ event[t][1].eventType_ = ES_EVENT_TYPE_NOTIFY_FORK
                 /\ event[t][1].pid_ = getpid
                 /\ event[t][1].ppid_ = getppid
                 /\ event[t][1].cpid_ = call[t].child_pid
                 /\ event[t][1].executable_ = get_executable_path(call[t].child_pid)
                 /\ event[t][1].executable_ # get_executable_path(getpid)
                 /\ \E i \in 1..Len(sandbox) : sandbox[i].event = event[t][1]
            ELSE /\ sends[t] = 0
                 /\ event[t] = None

\* C6 witness: fork() returned the child's pid and the macro has reported.
C6_Witness ==
    \E t \in Threads :
        /\ pc[t] = "after" /\ call[t].shape = "fork"
        /\ call[t].cmp = ">" /\ call[t].result = ChildPid
        /\ sends[t] = 1 /\ event[t] # None /\ event[t][1].cpid_ = ChildPid

C8_ModeQueryNeverFails ==
    /\ (how.shape = "query" /\ how.exec # <<>>) =>
          /\ built # None
          /\ how.get_mode =>
                IF how.st.ok
                THEN GetMode(built[1]) = how.st.st_mode /\ EventPathExists(built[1])
                ELSE GetMode(built[1]) = 0 /\ ~EventPathExists(built[1])
    /\ built # None => (EventPathExists(built[1]) <=> GetMode(built[1]) # 0)

\* C8 witness: a record was built although the stat of its source failed.
C8_Witness ==
    /\ how.shape = "query" /\ how.get_mode /\ ~how.st.ok
    /\ built # None /\ built[1].src_path_ # <<>> /\ GetMode(built[1]) = 0

Same9(a, b) ==
    /\ a.pid_ = b.pid_ /\ a.cpid_ = b.cpid_ /\ a.ppid_ = b.ppid_
    /\ a.eventType_ = b.eventType_ /\ a.mode_ = b.mode_ /\ a.modified_ = b.modified_
    /\ a.executable_ = b.executable_ /\ a.src_path_ = b.src_path_
    /\ a.dst_path_ = b.dst_path_

C10_FailedWriteReportsNothing ==
    /\ \A t \in Threads :
          (call[t].shape = "write" /\ call[t].success # 0) =>
              /\ pc[t] \in {"macro", "restore", "after"}
              /\ event[t] = None /\ sends[t] = 0 /\ ~inserted[t]
    /\ \A p \in trackedPaths_ :
          \/ NumWriteReports(p) >= 1
          \/ \E t \in Threads : pc[t] = "send" /\ call[t].src = p /\ call[t].success = 0
    /\ \A p \in WritePaths :
          (Quiescent /\ p \in okWrites) => NumWriteReports(p) >= 1

\* C10 witness: a path has seen a failed write, and a successful write to it
\* has reported and returned.
C10_Witness ==
    \E t \in Threads :
        /\ pc[t] = "after" /\ call[t].shape = "write" /\ call[t].success = 0
        /\ call[t].src \in failedWrites
        /\ sends[t] = 1 /\ NumWriteReports(call[t].src) = 1

====
